---- MODULE Spec2Model ----
(***************************************************************************)
(* Model of src/source/pipeline.py: the percentile labeler scores_pctpop,  *)
(* the confusion-matrix metrics and the classify train/evaluate loop.      *)
(***************************************************************************)
EXTENDS Integers, Sequences, FiniteSets, TLC

VARIABLES
    \* ---- scores_pctpop applied to one input -------------------------------
    pred_scores,   \* the score vector handed to scores_pctpop
    pct_pop,       \* the percentage handed to scores_pctpop
    labels,        \* the list scores_pctpop returned (<<>> before the call)
    pstate,        \* "input" before the call, "output" after it, "off" when unused
    \* ---- classify ----------------------------------------------------------
    pc,            \* "idle", "fit", "effects", "metrics", "level", "done", "raised"
    err,           \* the exception that left classify, and the iteration it left from
    thrown,        \* the exceptions raised inside the loop body during the current call
    args,          \* the arguments of the current call of classify
    calls,         \* number of calls of classify so far
    classifiers,   \* the module-level catalog: model name -> hyperparameters of its instance
    files,         \* result files: year -> the lines of <results_file>_<year>.csv
    features_txt,  \* the years whose features_<year>.txt exists
    test_set,      \* the caller's test dataframe: column name -> values
    artifacts,     \* the plot and prediction files written so far
    fitLog,        \* the fits of the current call: model, configuration, hyperparameters in effect
    it,            \* index of the current (model, parameters) pair, 0 outside the loop
    li,            \* index of the current level of the level loop, 0 outside it
    y_pred_prob,   \* the scores of the current configuration
    eval_result,   \* the row being built for the current configuration
    train_set,     \* the caller's train dataframe: column name -> values
    opened,        \* year -> the arguments of the latest call that opened the result
                   \* file of the year, and the number of lines that opening discarded
    \* ---- get_stability_score applied to one input --------------------------
    trainsets,     \* the list of result tables, one per train/test set
    stability,     \* the table get_stability_score returned
    sstate,        \* "input" before the call, "output" after it, "off" when unused
    \* ---- get_best_models applied to one input ------------------------------
    results_df,    \* the results table handed to get_best_models
    test_years,    \* the list of years handed to get_best_models
    best_models,   \* the table get_best_models returned
    bstate         \* "input" before the call, "output" after it, "off" when unused

pctvars == <<pred_scores, pct_pop, labels, pstate>>

clsvars == <<pc, err, thrown, args, calls, classifiers, files, features_txt, test_set,
             artifacts, fitLog, it, li, y_pred_prob, eval_result, train_set, opened>>

rankvars == <<trainsets, stability, sstate, results_df, test_years, best_models, bstate>>

vars == <<pred_scores, pct_pop, labels, pstate, pc, err, thrown, args, calls, classifiers,
          files, features_txt, test_set, artifacts, fitLog, it, li, y_pred_prob,
          eval_result, train_set, opened, trainsets, stability, sstate, results_df,
          test_years, best_models, bstate>>

(***************************************************************************)
(* Bounds of the inputs.                                                   *)
(***************************************************************************)
MaxLen == 3
MaxScore == 1
MaxCalls == 2
MaxRows == 2
MaxSplits == 2
MaxDfRows == 3

Percents == {0, 10, 25, 50, 75, 100, 150}

Vectors(n, S) == [1..n -> S]

ScoreInputs == UNION {Vectors(n, 0..MaxScore) : n \in 0..MaxLen}

Min(a, b) == IF a <= b THEN a ELSE b

Ones(v) == Cardinality({i \in DOMAIN v : v[i] = 1})

(***************************************************************************)
(* scores_pctpop, pipeline.py:424-438                                      *)
(***************************************************************************)

\* round(x, 0) of Python 3 on the quotient num/den: nearest integer, a half
\* goes to the even neighbour
round(num, den) ==
    LET q == num \div den
        r == num % den
    IN  IF 2 * r < den THEN q
        ELSE IF 2 * r > den THEN q + 1
        ELSE IF q % 2 = 0 THEN q ELSE q + 1

\* the count truncated instead of rounded
num_pos_truncated(n, pct) == (n * pct) \div 100

\* num_pos = int(round(len(pred_scores)*(pct_pop/100),0))
num_pos(n, pct) == round(n * pct, 100)

\* the orders Series.sort_values(ascending=True) can return
sort_values_ascending(s) ==
    {ord \in [1..Len(s) -> 1..Len(s)] :
        /\ \A i, j \in 1..Len(s) : i # j => ord[i] # ord[j]
        /\ \A i, j \in 1..Len(s) : i < j => s[ord[i]] <= s[ord[j]]}

\* pred_df.sort_values(ascending=False): the index in an order of
\* non-increasing score.  The call leaves kind at its default 'quicksort',
\* which is not a stable sort, so the relative order of equal scores is any
\* order the library build produces.
sort_values(s) ==
    {ord \in [1..Len(s) -> 1..Len(s)] :
        /\ \A i, j \in 1..Len(s) : i # j => ord[i] # ord[j]
        /\ \A i, j \in 1..Len(s) : i < j => s[ord[i]] >= s[ord[j]]}

\* sorted[0:num_pos].index : the labels of the first num_pos entries
slice(ord, k) == {ord[i] : i \in 1..Min(k, Len(ord))}

\* the list scores_pctpop returns when the sort produced ord
scores_pctpop(s, pct, ord) ==
    LET idx == slice(ord, num_pos(Len(s), pct))
    IN  [i \in 1..Len(s) |-> IF i \in idx THEN 1 ELSE 0]

(***************************************************************************)
(* Evaluation metrics, pipeline.py:371-422 and 459-463.  A metric value is *)
(* the quotient num/den; den = 0 is the NaN that numpy's float division    *)
(* 0.0/0 yields.                                                           *)
(***************************************************************************)
Count(y, p, a, b) == Cardinality({i \in DOMAIN y : y[i] = a /\ p[i] = b})

\* confusion_matrix(y_true, y_predicted).ravel(): the matrix has one row and
\* column per label that occurs in y_true or y_predicted, so it is 1x1 when
\* only one label occurs at all
confusion_matrix_ravel(y_true, y_predicted) ==
    LET present == {y_true[i] : i \in DOMAIN y_true} \cup
                   {y_predicted[i] : i \in DOMAIN y_predicted}
    IN  IF Cardinality(present) = 1
        THEN <<Len(y_true)>>
        ELSE <<Count(y_true, y_predicted, 0, 0), Count(y_true, y_predicted, 0, 1),
               Count(y_true, y_predicted, 1, 0), Count(y_true, y_predicted, 1, 1)>>

\* tn, fp, fn, tp = ... : the unpacking raises ValueError unless there are 4 values
unpack_raises(y_true, y_predicted) ==
    Len(confusion_matrix_ravel(y_true, y_predicted)) # 4

accuracy_at_threshold(y_true, y_predicted) ==
    LET c == confusion_matrix_ravel(y_true, y_predicted)
    IN  [num |-> c[4] + c[1], den |-> c[1] + c[2] + c[3] + c[4]]

recall_at_threshold(y_true, y_predicted) ==
    LET c == confusion_matrix_ravel(y_true, y_predicted)
    IN  [num |-> c[4], den |-> c[4] + c[3]]

precision_at_threshold(y_true, y_predicted) ==
    LET c == confusion_matrix_ravel(y_true, y_predicted)
    IN  [num |-> c[4], den |-> c[4] + c[2]]

\* sklearn's f1_score: 2tp / (2tp + fp + fn), 0.0 when that denominator is 0
f1_at_threshold(y_true, y_predicted) ==
    LET tp == Count(y_true, y_predicted, 1, 1)
        fp == Count(y_true, y_predicted, 0, 1)
        fn == Count(y_true, y_predicted, 1, 0)
    IN  IF 2 * tp + fp + fn = 0 THEN [num |-> 0, den |-> 1]
        ELSE [num |-> 2 * tp, den |-> 2 * tp + fp + fn]

\* sklearn's roc_auc_score: the share of (positive, negative) pairs ranked
\* correctly, a tied pair counting one half
roc_auc_score(y_true, y_score) ==
    LET pairs == {ij \in (DOMAIN y_true) \X (DOMAIN y_true) :
                     y_true[ij[1]] = 1 /\ y_true[ij[2]] = 0}
        won   == {ij \in pairs : y_score[ij[1]] > y_score[ij[2]]}
        tied  == {ij \in pairs : y_score[ij[1]] = y_score[ij[2]]}
    IN  [num |-> 2 * Cardinality(won) + Cardinality(tied), den |-> 2 * Cardinality(pairs)]

\* metrics[metric](y_true, y) raises instead of returning a value.
\* roc_auc_score on a y_true with a single class raises ValueError in the
\* library releases this code was written for; later releases return NaN
\* there instead (see Metrics).
metric_raises(metric, y_true, y) ==
    CASE metric \in {"accuracy", "precision", "recall"} -> unpack_raises(y_true, y)
      [] metric = "f1"  -> FALSE
      [] metric = "auc" -> Cardinality({y_true[i] : i \in DOMAIN y_true}) # 2

\* the metrics dictionary
metrics(metric, y_true, y) ==
    CASE metric = "accuracy"  -> accuracy_at_threshold(y_true, y)
      [] metric = "precision" -> precision_at_threshold(y_true, y)
      [] metric = "recall"    -> recall_at_threshold(y_true, y)
      [] metric = "f1"        -> f1_at_threshold(y_true, y)
      [] metric = "auc"       -> roc_auc_score(y_true, y)

(***************************************************************************)
(* The classifier catalog, pipeline.py:570-581.  An instance is modelled   *)
(* by its hyperparameters; a fractional value is a pair <<num, den>>.      *)
(***************************************************************************)
InitialClassifiers ==
    [GB  |-> [learning_rate |-> <<5, 100>>, subsample |-> <<5, 10>>,
              max_depth |-> 6, n_estimators |-> 10],
     KNN |-> [n_neighbors |-> 3]]

\* classifier.set_params(**parameters): the named hyperparameters are
\* overwritten on the instance, the others keep their current value
set_params(current, parameters) ==
    [k \in DOMAIN current \cup DOMAIN parameters |->
        IF k \in DOMAIN parameters THEN parameters[k] ELSE current[k]]

(***************************************************************************)
(* sklearn's ParameterGrid over a list of dictionaries name -> candidates: *)
(* the dictionaries in turn, each expanded to the product of its candidate *)
(* lists with the keys in sorted order and the last key varying fastest.   *)
(***************************************************************************)
ParamOrder == <<"learning_rate", "max_depth", "n_estimators", "n_neighbors", "subsample">>

SortedKeys(d) == SelectSeq(ParamOrder, LAMBDA k : k \in DOMAIN d)

RECURSIVE product(_, _)
product(keys, d) ==
    IF keys = <<>> THEN << <<>> >>
    ELSE LET k    == Head(keys)
             rest == product(Tail(keys), d)
         IN  [n \in 1..(Len(d[k]) * Len(rest)) |->
                 (k :> d[k][((n - 1) \div Len(rest)) + 1]) @@ rest[((n - 1) % Len(rest)) + 1]]

RECURSIVE ParameterGrid(_)
ParameterGrid(param_grid) ==
    IF param_grid = <<>> THEN <<>>
    ELSE product(SortedKeys(Head(param_grid)), Head(param_grid))
         \o ParameterGrid(Tail(param_grid))

(***************************************************************************)
(* Inputs of classify.                                                     *)
(***************************************************************************)
Years == {2012, 2013}

ModelLists == {<<"GB">>, <<"GB", "KNN">>}

GridProduct ==
    [GB  |-> << [max_depth |-> <<1, 2>>, n_estimators |-> <<5>>] >>,
     KNN |-> << [n_neighbors |-> <<1>>] >>]

GridList ==
    [GB  |-> << [max_depth |-> <<1>>], [n_estimators |-> <<1>>] >>,
     KNN |-> << [n_neighbors |-> <<1>>] >>]

Grids == {GridProduct, GridList}

EvalMetrics == {<<>>, <<"auc">>}

EvalMetricsByLevel ==
    { << <<>>, <<>> >>,
      << <<"precision">>, <<50, 100>> >>,
      << <<"precision", "recall">>, <<10>> >> }

PlotPr == {"None", "save"}

YTests == {<<0, 0>>, <<1, 0>>, <<1, 1>>}

\* the score vectors a fitted model may return for a test set of two rows
ScoreVectors == {<<2, 1>>, <<1, 2>>, <<1, 1>>}

\* config.POP_THRESHOLD is set outside the source at hand
PopThresholds == {10, 50}

y_train == <<0, 1, 1>>

attributes_lst == <<"AGE", "PRIORS">>

Args ==
    [models : ModelLists, custom_grid : Grids, eval_metrics : EvalMetrics,
     eval_metrics_by_level : EvalMetricsByLevel, year : {2012}, plot_pr : PlotPr,
     compute_bias : BOOLEAN, save_pred : BOOLEAN, y_test : YTests]

\* the arguments of the calls of a process that calls classify repeatedly
ArgsCalls ==
    [models : {<<"GB">>}, custom_grid : Grids, eval_metrics : {<<>>},
     eval_metrics_by_level : {<< <<"precision">>, <<50, 100>> >>}, year : Years,
     plot_pr : {"None"}, compute_bias : {FALSE}, save_pred : {FALSE},
     y_test : {<<1, 0>>}]

NoArgs ==
    [models |-> <<>>, custom_grid |-> GridProduct, eval_metrics |-> <<>>,
     eval_metrics_by_level |-> << <<>>, <<>> >>, year |-> 0, plot_pr |-> "None",
     compute_bias |-> FALSE, save_pred |-> FALSE, y_test |-> <<>>]

NoErr == [kind |-> "none", at |-> 0]

(***************************************************************************)
(* classify, pipeline.py:601-719                                           *)
(***************************************************************************)

\* the (model, parameters) pairs in the order the two for loops visit them:
\* for model in models: for parameters in ParameterGrid(custom_grid[model])
RECURSIVE pairs(_, _)
pairs(models, custom_grid) ==
    IF models = <<>> THEN <<>>
    ELSE LET grid == ParameterGrid(custom_grid[Head(models)])
         IN  [j \in 1..Len(grid) |-> [model |-> Head(models), parameters |-> grid[j]]]
             \o pairs(Tail(models), custom_grid)

Pairs == pairs(args.models, args.custom_grid)

\* metric + '_' + str(level) for level in levels for metric in level_metrics;
\* a column name is the tuple of the parts joined by '_'
level_columns(by_level) ==
    LET ms == by_level[1]
        ls == by_level[2]
    IN  [n \in 1..(Len(ls) * Len(ms)) |->
            <<ms[((n - 1) % Len(ms)) + 1], ls[((n - 1) \div Len(ms)) + 1]>>]

fixed_columns ==
    << <<"year">>, <<"model">>, <<"classifiers">>, <<"parameters">>,
       <<"train_set_size">>, <<"num_features">>, <<"validation_set_size">>,
       <<"baseline">> >>

results_columns(a) ==
    fixed_columns
    \o [i \in 1..Len(a.eval_metrics) |-> <<a.eval_metrics[i]>>]
    \o level_columns(a.eval_metrics_by_level)

HeaderLine(a) == [kind |-> "header", cells |-> results_columns(a)]

DataLine(row) == [kind |-> "data", cells |-> row]

\* eval_result = [year, model, classifier, parameters, len(X_train),
\*                len(attributes_lst), len(X_test), baseline]
lead_cells(a, model, classifier, parameters) ==
    <<a.year, model, classifier, parameters, Len(y_train), Len(attributes_lst),
      Len(a.y_test), [num |-> Ones(a.y_test), den |-> Len(a.y_test)]>>

\* every side effect, whatever the flags
hooks_unconditional(a) == <<"HIST", "PRED", "PRC", "BIAS">>

\* the side effects one iteration runs, in program order
hooks(a) ==
    <<"HIST">>
    \o (IF a.save_pred THEN <<"PRED">> ELSE <<>>)
    \o (IF a.plot_pr # "None" THEN <<"PRC">> ELSE <<>>)
    \o (IF a.compute_bias THEN <<"BIAS">> ELSE <<>>)

\* the end of the body of the inner for loop: the next pair, or the return
continue_ ==
    /\ IF it < Len(Pairs)
         THEN pc' = "fit" /\ it' = it + 1
         ELSE pc' = "done" /\ it' = 0
    /\ li' = 0
    /\ y_pred_prob' = <<>>
    /\ eval_result' = <<>>
    /\ err' = err

\* an exception caught per iteration: the loop would go on with the next pair
swallow_(e) == continue_

\* an exception raised in the loop body: nothing in classify catches it, so
\* it leaves classify
raise_(e) ==
    /\ pc' = "raised"
    /\ err' = [kind |-> e, at |-> it]
    /\ it' = 0
    /\ li' = 0
    /\ y_pred_prob' = <<>>
    /\ eval_result' = <<>>

\* a statement of the loop body raises e
throw(e) ==
    /\ thrown' = thrown \cup {[kind |-> e, at |-> it]}
    /\ raise_(e)

\* df[col] = values with the values stored in the label column
with_column_on_label(df, col, values) == ("LABEL" :> values) @@ df

\* df[col] = values: the column is added, or replaced if the dataframe has it
with_column(df, col, values) == (col :> values) @@ df

\* open(outfile, "a") and one writerow: the line follows what the file held
open_a_writerow(f, line) == Append(f, line)

\* open(outfile, "w") and one writerow: the file holds that line and nothing else
open_w_writerow(f, line) == <<line>>

\* lines 623-646: the header is written to a truncated file, the features
\* file is written unless it exists, and the loop is entered
begin(a) ==
    /\ args' = a
    /\ calls' = calls + 1
    /\ files' = [files EXCEPT ![a.year] = open_w_writerow(@, HeaderLine(a))]
    /\ opened' = [opened EXCEPT ![a.year] = [a |-> a, dropped |-> Len(files[a.year])]]
    /\ train_set' = ("LABEL" :> y_train)
    /\ features_txt' = features_txt \cup {a.year}
    /\ test_set' = ("LABEL" :> a.y_test)
    /\ fitLog' = <<>>
    /\ err' = NoErr
    /\ thrown' = {}
    /\ IF pairs(a.models, a.custom_grid) = <<>>
         THEN pc' = "done" /\ it' = 0
         ELSE pc' = "fit" /\ it' = 1
    /\ li' = 0
    /\ y_pred_prob' = <<>>
    /\ eval_result' = <<>>
    /\ UNCHANGED <<classifiers, artifacts>>

\* one call of classify on a fresh process
Classify ==
    /\ pc = "idle"
    /\ \E a \in Args : begin(a)
    /\ UNCHANGED pctvars
    /\ UNCHANGED rankvars

\* lines 654-668: set_params on the catalog's instance, fit, score
Fit ==
    /\ pc = "fit"
    /\ LET cur == Pairs[it]
           clfr == set_params(classifiers[cur.model], cur.parameters)
       IN  /\ classifiers' = [classifiers EXCEPT ![cur.model] = clfr]
           /\ fitLog' = Append(fitLog, [model |-> cur.model,
                                        parameters |-> cur.parameters,
                                        in_effect |-> clfr])
           /\ \/ throw("fit")
              \/ /\ \E sc \in ScoreVectors : y_pred_prob' = sc
                 /\ eval_result' = lead_cells(args, cur.model, clfr, cur.parameters)
                 /\ pc' = "effects"
                 /\ UNCHANGED <<err, thrown, it, li>>
    /\ UNCHANGED <<args, calls, files, features_txt, test_set, artifacts>>
    /\ UNCHANGED <<train_set, opened>>
    /\ UNCHANGED pctvars
    /\ UNCHANGED rankvars

\* lines 670-705: the SCORE column, the histogram, the PREDICTION column,
\* then the prediction dump, the precision/recall plot and the bias plot
Effects ==
    /\ pc = "effects"
    /\ LET cur == Pairs[it]
           H   == hooks(args)
       IN  \E pt \in PopThresholds, ord \in sort_values(y_pred_prob), n \in 0..Len(H) :
             LET prediction == scores_pctpop(y_pred_prob, pt, ord)
                 ran        == {H[i] : i \in 1..n}
             IN  /\ "PRC" \in ran => ~unpack_raises(args.y_test, prediction)
                 /\ artifacts' = artifacts \cup
                       {[kind |-> k, year |-> args.year, model |-> cur.model,
                         parameters |-> cur.parameters] : k \in ran}
                 /\ test_set' = IF n >= 1
                                  THEN with_column(with_column(test_set, "SCORE", y_pred_prob),
                                                   "PREDICTION", prediction)
                                  ELSE with_column(test_set, "SCORE", y_pred_prob)
                 /\ IF n < Len(H)
                      THEN throw(H[n + 1])
                      ELSE /\ pc' = "metrics"
                           /\ UNCHANGED <<err, thrown, it, li, y_pred_prob, eval_result>>
    /\ UNCHANGED <<args, calls, classifiers, files, features_txt, fitLog>>
    /\ UNCHANGED <<train_set, opened>>
    /\ UNCHANGED pctvars
    /\ UNCHANGED rankvars

\* lines 707-711: the threshold-independent metrics, then the level loop if
\* there are level metrics
Metrics ==
    /\ pc = "metrics"
    /\ LET em == args.eval_metrics
           lm == args.eval_metrics_by_level[1]
           ls == args.eval_metrics_by_level[2]
           row == eval_result \o
                  [i \in 1..Len(em) |->
                      [of |-> <<em[i]>>, value |-> metrics(em[i], args.y_test, y_pred_prob)]]
       IN  \E auc_nan \in BOOLEAN :
             IF \E i \in 1..Len(em) :
                   /\ metric_raises(em[i], args.y_test, y_pred_prob)
                   /\ ~(auc_nan /\ em[i] = "auc")
               THEN throw("metric")
               ELSE /\ thrown' = thrown
                    /\ IF lm # <<>> /\ ls # <<>>
                         THEN /\ pc' = "level"
                              /\ li' = 1
                              /\ eval_result' = row
                              /\ UNCHANGED <<err, it, y_pred_prob>>
                         ELSE continue_
    /\ UNCHANGED <<args, calls, classifiers, files, features_txt, test_set,
                   artifacts, fitLog>>
    /\ UNCHANGED <<train_set, opened>>
    /\ UNCHANGED pctvars
    /\ UNCHANGED rankvars

\* lines 712-719: one pass of the level loop: the labels at the level, the
\* level metrics, and the append of eval_result to the result file
Level ==
    /\ pc = "level"
    /\ LET lm == args.eval_metrics_by_level[1]
           ls == args.eval_metrics_by_level[2]
           level == ls[li]
       IN  \E ord \in sort_values(y_pred_prob) :
             LET y_pred == scores_pctpop(y_pred_prob, level, ord)
                 row == eval_result \o
                        [i \in 1..Len(lm) |->
                            [of |-> <<lm[i], level>>,
                             value |-> metrics(lm[i], args.y_test, y_pred)]]
             IN  IF \E i \in 1..Len(lm) : metric_raises(lm[i], args.y_test, y_pred)
                   THEN throw("level_metric") /\ UNCHANGED files
                   ELSE /\ files' = [files EXCEPT ![args.year] = Append(@, DataLine(row))]
                        /\ thrown' = thrown
                        /\ IF li < Len(ls)
                             THEN /\ li' = li + 1
                                  /\ eval_result' = row
                                  /\ UNCHANGED <<pc, err, it, y_pred_prob>>
                             ELSE continue_
    /\ UNCHANGED <<args, calls, classifiers, features_txt, test_set, artifacts, fitLog>>
    /\ UNCHANGED <<train_set, opened>>
    /\ UNCHANGED pctvars
    /\ UNCHANGED rankvars

ClassifyIdle ==
    /\ pc = "idle"
    /\ err = NoErr
    /\ thrown = {}
    /\ args = NoArgs
    /\ calls = 0
    /\ classifiers = InitialClassifiers
    /\ files = [y \in Years |-> <<>>]
    /\ features_txt = {}
    /\ test_set = <<>>
    /\ train_set = <<>>
    /\ opened = [y \in Years |-> [a |-> NoArgs, dropped |-> 0]]
    /\ artifacts = {}
    /\ fitLog = <<>>
    /\ it = 0
    /\ li = 0
    /\ y_pred_prob = <<>>
    /\ eval_result = <<>>

PctOff ==
    /\ pred_scores = <<>>
    /\ pct_pop = 0
    /\ labels = <<>>
    /\ pstate = "off"

RankOff ==
    /\ trainsets = <<>>
    /\ stability = <<>>
    /\ sstate = "off"
    /\ results_df = <<>>
    /\ test_years = <<>>
    /\ best_models = <<>>
    /\ bstate = "off"

Init == ClassifyIdle /\ PctOff /\ RankOff

Next == Classify \/ Fit \/ Effects \/ Metrics \/ Level

Spec == Init /\ [][Next]_vars

(***************************************************************************)
(* Specification of a process that calls classify again and again: a call  *)
(* starts once the previous one has returned or raised.                    *)
(***************************************************************************)
ClassifyAgain ==
    /\ pc \in {"idle", "done", "raised"}
    /\ calls < MaxCalls
    /\ \E a \in ArgsCalls : begin(a)
    /\ UNCHANGED pctvars
    /\ UNCHANGED rankvars

NextCalls == ClassifyAgain \/ Fit \/ Effects \/ Metrics \/ Level

SpecCalls == Init /\ [][NextCalls]_vars

(***************************************************************************)
(* Specification of one application of scores_pctpop.                      *)
(***************************************************************************)
InitPct ==
    /\ pred_scores \in ScoreInputs
    /\ pct_pop \in Percents
    /\ labels = <<>>
    /\ pstate = "input"
    /\ ClassifyIdle
    /\ RankOff

ApplyPctpop ==
    /\ pstate = "input"
    /\ \E ord \in sort_values(pred_scores) :
          labels' = scores_pctpop(pred_scores, pct_pop, ord)
    /\ pstate' = "output"
    /\ UNCHANGED <<pred_scores, pct_pop>>
    /\ UNCHANGED clsvars
    /\ UNCHANGED rankvars

NextPct == ApplyPctpop

SpecPct == InitPct /\ [][NextPct]_vars

(***************************************************************************)
(* get_stability_score, pipeline.py:500-512.  A row of a result table has  *)
(* the columns model, parameters and the metric; cols is                   *)
(* ['model', 'parameters'].                                                *)
(***************************************************************************)
StabModels == {"RF", "ET"}

ParamStrings == {"{'n_estimators': 1}", "{'n_estimators': 10}"}

MetricValues == {1, 2}

ResultRows == [model : StabModels, parameters : ParamStrings, metric : MetricValues]

\* a result table of one train/test set: every (model, parameters) at most once
Tables ==
    {t \in UNION {[1..n -> ResultRows] : n \in 1..MaxRows} :
        \A i, j \in DOMAIN t :
            i # j => <<t[i].model, t[i].parameters>> # <<t[j].model, t[j].parameters>>}

TrainSetLists == UNION {[1..n -> Tables] : n \in 1..MaxSplits}

MetricColumn(t) == [i \in DOMAIN t |-> t[i].metric]

\* the sort orders sets.sort_values(metric, ascending=False) can return, one
\* per table
SortOrders(ts) ==
    {f \in [DOMAIN ts -> UNION {sort_values(MetricColumn(ts[k])) : k \in DOMAIN ts}] :
        \A k \in DOMAIN ts : f[k] \in sort_values(MetricColumn(ts[k]))}

\* sort = sets.sort_values(...); sort['rank'] = range(len(sort))
ranked(t, ord) == [i \in DOMAIN t |-> [row |-> t[ord[i]], rank |-> i - 1]]

\* result = result.append(sort), over the tables in turn
RECURSIVE appended(_, _)
appended(ts, ords) ==
    IF ts = <<>> THEN <<>>
    ELSE ranked(Head(ts), Head(ords)) \o appended(Tail(ts), Tail(ords))

RECURSIVE SumRanks(_, _)
SumRanks(result, p) ==
    IF result = <<>> THEN 0
    ELSE (IF Head(result).row.parameters = p THEN Head(result).rank ELSE 0)
         + SumRanks(Tail(result), p)

\* result.groupby('parameters').mean(): one entry per value of the
\* parameters column, with the mean rank (rank_sum / count) of the rows that
\* have it; models are the models of those rows
groupby_parameters_mean(result) ==
    {[parameters |-> p,
      rank_sum   |-> SumRanks(result, p),
      count      |-> Cardinality({i \in DOMAIN result : result[i].row.parameters = p}),
      models     |-> {result[i].row.model : i \in {k \in DOMAIN result :
                                                     result[k].row.parameters = p}}] :
        p \in {result[i].row.parameters : i \in DOMAIN result}}

\* .sort_values('rank'): the entries in an order of non-decreasing mean rank
sort_values_rank(S) ==
    {out \in [1..Cardinality(S) -> S] :
        /\ \A i, j \in DOMAIN out : i # j => out[i] # out[j]
        /\ \A i, j \in DOMAIN out :
              i < j => out[i].rank_sum * out[j].count <= out[j].rank_sum * out[i].count}

\* the tables get_stability_score can return
get_stability_score(ts) ==
    UNION {sort_values_rank(groupby_parameters_mean(appended(ts, ords))) :
              ords \in SortOrders(ts)}

InitStab ==
    /\ trainsets \in TrainSetLists
    /\ stability = <<>>
    /\ sstate = "input"
    /\ results_df = <<>>
    /\ test_years = <<>>
    /\ best_models = <<>>
    /\ bstate = "off"
    /\ ClassifyIdle
    /\ PctOff

ApplyStability ==
    /\ sstate = "input"
    /\ stability' \in get_stability_score(trainsets)
    /\ sstate' = "output"
    /\ UNCHANGED <<trainsets, results_df, test_years, best_models, bstate>>
    /\ UNCHANGED clsvars
    /\ UNCHANGED pctvars

NextStab == ApplyStability

SpecStab == InitStab /\ [][NextStab]_vars

(***************************************************************************)
(* get_best_models, pipeline.py:468-489.  A row of the results table has   *)
(* the columns year (time_col), model and the metric; cols is all of them. *)
(***************************************************************************)
BestRows == [year : Years, model : {"A", "B"}, metric : {7, 8, 9}]

\* a results table: every (year, model) at most once
ResultTables ==
    {t \in UNION {[1..n -> BestRows] : n \in 0..MaxDfRows} :
        \A i, j \in DOMAIN t :
            i # j => <<t[i].year, t[i].model>> # <<t[j].year, t[j].model>>}

TestYearLists == {<<>>, <<2012>>, <<2013>>, <<2012, 2013>>, <<2013, 2012>>, <<2012, 2012>>}

\* year_data = df[df[time_col]==year]
year_data(df, year) == SelectSeq(df, LAMBDA r : r.year = year)

\* the smallest metric of the rows
lowest(rows) ==
    CHOOSE m \in {rows[i].metric : i \in DOMAIN rows} :
        \A i \in DOMAIN rows : rows[i].metric >= m

\* highest = year_data[metric].max(), on a table that has rows
highest(rows) ==
    CHOOSE m \in {rows[i].metric : i \in DOMAIN rows} :
        \A i \in DOMAIN rows : rows[i].metric <= m

\* model = year_data[year_data[metric] == highest]; the maximum of no rows
\* is NaN, which no row equals
best_of_year(df, year) ==
    LET rows == year_data(df, year)
    IN  IF rows = <<>> THEN <<>>
        ELSE SelectSeq(rows, LAMBDA r : r.metric = highest(rows))

\* for year in test_years: best_models = best_models.append(model[cols])
RECURSIVE get_best_models(_, _)
get_best_models(df, years) ==
    IF years = <<>> THEN <<>>
    ELSE best_of_year(df, Head(years)) \o get_best_models(df, Tail(years))

InitBest ==
    /\ results_df \in ResultTables
    /\ test_years \in TestYearLists
    /\ best_models = <<>>
    /\ bstate = "input"
    /\ trainsets = <<>>
    /\ stability = <<>>
    /\ sstate = "off"
    /\ ClassifyIdle
    /\ PctOff

ApplyBest ==
    /\ bstate = "input"
    /\ best_models' = get_best_models(results_df, test_years)
    /\ bstate' = "output"
    /\ UNCHANGED <<results_df, test_years, trainsets, stability, sstate>>
    /\ UNCHANGED clsvars
    /\ UNCHANGED pctvars

NextBest == ApplyBest

SpecBest == InitBest /\ [][NextBest]_vars

(***************************************************************************)
(* Properties.                                                             *)
(***************************************************************************)
DataLines(f) == SelectSeq(f, LAMBDA l : l.kind = "data")

\* the line is the data row of the pair: its model and parameters cells
LineOfPair(l, pr) ==
    /\ l.kind = "data"
    /\ l.cells[2] = pr.model
    /\ l.cells[4] = pr.parameters

HookKinds == {"HIST", "PRED", "PRC", "BIAS"}

\* the result file of the current call
outfile == files[args.year]

\* every data line of the result file belongs to a pair before the n-th
OnlyRowsBefore(n) ==
    \A i \in DOMAIN outfile :
        outfile[i].kind = "data" =>
            \E j \in 1..(n - 1) : LineOfPair(outfile[i], Pairs[j])

\* the number of pairs whose loop body has run to its end
Completed ==
    CASE pc \in {"fit", "effects", "metrics", "level"} -> it - 1
      [] pc = "done" -> Len(Pairs)
      [] pc = "raised" -> err.at - 1
      [] OTHER -> 0

C3_FreshInstancePerFit ==
    \A i \in DOMAIN fitLog :
        fitLog[i].in_effect =
            set_params(InitialClassifiers[fitLog[i].model], fitLog[i].parameters)

\* C4: at every point of a run the result file starts with the header and
\* holds, for every pair completed so far, a full row, the rows of an
\* earlier pair before those of a later one.
C4_CompletedRowsOnFile ==
    pc # "idle" =>
        /\ Len(outfile) >= 1
        /\ outfile[1].kind = "header"
        /\ \A j \in 1..Completed :
              \E i \in 2..Len(outfile) :
                  /\ LineOfPair(outfile[i], Pairs[j])
                  /\ Len(outfile[i].cells) = Len(outfile[1].cells)
        /\ \A i1, i2 \in 2..Len(outfile) : \A j1, j2 \in 1..Len(Pairs) :
              (/\ LineOfPair(outfile[i1], Pairs[j1])
               /\ LineOfPair(outfile[i2], Pairs[j2])
               /\ j1 < j2) => i1 < i2

\* the integer nearest to num/den, the even one of two equally near
Nearest(num, den) ==
    CHOOSE k \in 0..((num \div den) + 1) :
        LET d == IF den * k >= num THEN den * k - num ELSE num - den * k
        IN  /\ 2 * d <= den
            /\ 2 * d = den => k % 2 = 0

\* C5: scores_pctpop returns a 0/1 vector as long as the scores with exactly
\* round(n*p/100) ones, at most n: all zeros when the count is 0, all ones
\* when it is n or more.
C5_PctpopCount ==
    pstate = "output" =>
        LET n == Len(pred_scores)
            k == Min(Nearest(n * pct_pop, 100), n)
        IN  /\ Len(labels) = n
            /\ \A i \in 1..n : labels[i] \in {0, 1}
            /\ Ones(labels) = k
            /\ k = 0 => \A i \in 1..n : labels[i] = 0
            /\ k = n => \A i \in 1..n : labels[i] = 1

C5_Witness ==
    /\ pstate = "output"
    /\ Len(pred_scores) = 3
    /\ pct_pop = 50
    /\ Ones(labels) = 2

\* C6 as stated: no position labeled 0 has a higher score than one labeled
\* 1, and of two positions with equal score the one labeled 1 never has the
\* larger index.
C6_TiesByIndex ==
    pstate = "output" =>
        \A i, j \in DOMAIN labels :
            (labels[i] = 1 /\ labels[j] = 0) =>
                /\ pred_scores[i] >= pred_scores[j]
                /\ pred_scores[i] = pred_scores[j] => i < j

\* C6 amended: no position labeled 0 has a strictly higher score than a
\* position labeled 1; which of several positions with the boundary score
\* are labeled 1 is not fixed.
C6_TopScoresLabeled ==
    pstate = "output" =>
        \A i, j \in DOMAIN labels :
            (labels[i] = 1 /\ labels[j] = 0) => pred_scores[i] >= pred_scores[j]

C6_Witness ==
    /\ pstate = "output"
    /\ \E i, j \in DOMAIN labels :
          /\ i < j
          /\ pred_scores[i] = pred_scores[j]
          /\ labels[i] = 0
          /\ labels[j] = 1
    /\ \E i, j \in DOMAIN labels : pred_scores[i] > pred_scores[j]

C8_NoArtifactUnlessRequested ==
    (args.plot_pr = "None" /\ ~args.compute_bias /\ ~args.save_pred) => artifacts = {}

\* C8 amended: the score histogram is saved for every configuration whose
\* scores were computed, whatever the flags; the prediction dump, the
\* precision/recall plot and the bias plot are produced only when save_pred,
\* plot_pr and compute_bias ask for them.
C8_HooksByFlag ==
    /\ \A x \in artifacts :
          /\ x.kind = "PRED" => args.save_pred
          /\ x.kind = "PRC" => args.plot_pr # "None"
          /\ x.kind = "BIAS" => args.compute_bias
    /\ \A j \in 1..Len(Pairs) :
          (j <= Completed \/ (j = it /\ pc \in {"metrics", "level"})) =>
              [kind |-> "HIST", year |-> args.year, model |-> Pairs[j].model,
               parameters |-> Pairs[j].parameters] \in artifacts

C8_Witness ==
    /\ pc = "done"
    /\ args.plot_pr = "None" /\ ~args.compute_bias /\ ~args.save_pred
    /\ Cardinality(artifacts) = Len(Pairs)
    /\ \A x \in artifacts : x.kind = "HIST"

C10_UndefinedMetricNeverRaises ==
    \A f \in thrown : f.kind # "level_metric"

\* C11 as stated: after classify has returned, and between two
\* configurations, the train and test partitions have the columns and the
\* values they had before the call.
C11_PartitionsReadOnly ==
    pc \in {"fit", "done"} =>
        /\ train_set = ("LABEL" :> y_train)
        /\ test_set = ("LABEL" :> args.y_test)

\* C11 amended: classify never changes the train partition nor the columns
\* the test partition came with, but it adds the columns SCORE and PREDICTION
\* to the test partition: they are there once a configuration has got past
\* its histogram.
C11_OnlyScratchColumnsAdded ==
    pc # "idle" =>
        /\ train_set = ("LABEL" :> y_train)
        /\ "LABEL" \in DOMAIN test_set
        /\ test_set["LABEL"] = args.y_test
        /\ DOMAIN test_set \subseteq {"LABEL", "SCORE", "PREDICTION"}
        /\ (Completed >= 1 \/ pc \in {"metrics", "level"}) =>
              {"SCORE", "PREDICTION"} \subseteq DOMAIN test_set

C11_Witness ==
    /\ pc = "done"
    /\ DOMAIN test_set = {"LABEL", "SCORE", "PREDICTION"}
    /\ test_set["SCORE"] # <<>>

\* the (model, parameters) configurations of the tables handed in
Configurations ==
    UNION {{<<trainsets[k][i].model, trainsets[k][i].parameters>> :
               i \in DOMAIN trainsets[k]} : k \in DOMAIN trainsets}

\* C12: get_stability_score returns one entry per distinct configuration
\* (model together with its parameters), sorted ascending by mean rank, and
\* no entry averages the ranks of two different models.
C12_StabilityPerConfiguration ==
    sstate = "output" =>
        /\ Len(stability) = Cardinality(Configurations)
        /\ \A i \in DOMAIN stability : Cardinality(stability[i].models) = 1
        /\ \A i, j \in DOMAIN stability :
              i < j => stability[i].rank_sum * stability[j].count
                          <= stability[j].rank_sum * stability[i].count

\* the row's metric is the largest of its split
IsBest(r) ==
    \A i \in DOMAIN results_df :
        results_df[i].year = r.year => results_df[i].metric <= r.metric

Occurrences(seq, x) == Cardinality({i \in DOMAIN seq : seq[i] = x})

\* C13 as stated: get_best_models returns, for each split value present in
\* the results, exactly the rows of the split whose metric is the split's
\* maximum, each once, and no other row.
C13_BestPerSplit ==
    bstate = "output" =>
        /\ \A i \in DOMAIN best_models :
              \E j \in DOMAIN results_df : best_models[i] = results_df[j]
        /\ \A j \in DOMAIN results_df :
              Occurrences(best_models, results_df[j]) =
                  IF IsBest(results_df[j]) THEN 1 ELSE 0

\* C13 amended: get_best_models returns, for each entry of test_years, the
\* rows of that split whose metric is the split's maximum: a row at the
\* maximum of its split is returned once per listing of its split in
\* test_years, and no other row is returned.
C13_BestPerListedYear ==
    bstate = "output" =>
        /\ \A i \in DOMAIN best_models :
              \E j \in DOMAIN results_df : best_models[i] = results_df[j]
        /\ \A j \in DOMAIN results_df :
              Occurrences(best_models, results_df[j]) =
                  IF IsBest(results_df[j])
                    THEN Occurrences(test_years, results_df[j].year)
                    ELSE 0

C13_Witness ==
    /\ bstate = "output"
    /\ results_df = <<[year |-> 2012, model |-> "A", metric |-> 8],
                      [year |-> 2012, model |-> "B", metric |-> 9],
                      [year |-> 2013, model |-> "A", metric |-> 7]>>
    /\ test_years = <<2012, 2013>>
    /\ best_models = <<[year |-> 2012, model |-> "B", metric |-> 9],
                       [year |-> 2013, model |-> "A", metric |-> 7]>>

\* C14: after any sequence of classify calls the result file of a split
\* that was opened holds the header of the latest call for the split as its
\* first line and after it only data rows of that call; what earlier calls
\* wrote for the split is gone.
C14_FileOfLatestCall ==
    \A y \in Years :
        IF opened[y].a = NoArgs
          THEN files[y] = <<>>
          ELSE LET a  == opened[y].a
                   ps == pairs(a.models, a.custom_grid)
               IN  /\ Len(files[y]) >= 1
                   /\ files[y][1].kind = "header"
                   /\ files[y][1] = HeaderLine(a)
                   /\ \A i \in 2..Len(files[y]) :
                         /\ files[y][i].kind = "data"
                         /\ files[y][i].cells[1] = y
                         /\ \E j \in DOMAIN ps : LineOfPair(files[y][i], ps[j])
                   /\ Len(files[y]) - 1 <= Len(ps) * Len(a.eval_metrics_by_level[2])

C14_Witness ==
    /\ calls = 2
    /\ pc = "done"
    /\ opened[args.year].dropped >= 2
    /\ Len(outfile) >= 2

====
